---- MODULE Spec2Model ----
(***************************************************************************)
(* Model of the letterboxd-export scripts (src/list.py, src/watchlist.py). *)
(*                                                                         *)
(* A Python str is the sequence of its characters, one string of the       *)
(* model per character.  A printable ASCII character is itself; tab, line  *)
(* feed, form feed and carriage return are "\t", "\n", "\f" and "\r"; any  *)
(* other character is named by its code point, "U+00B2" being superscript  *)
(* two.  strip, split, join, isdigit, int, lower, urlparse and urljoin act *)
(* on these sequences as Python 3.11 acts on the characters.               *)
(*                                                                         *)
(* The two scripts are one pipeline; the variable mode says which of the   *)
(* two is running.                                                         *)
(***************************************************************************)
EXTENDS Integers, Sequences, FiniteSets, TLC

VARIABLES
    mode,         \* "list" (src/list.py) or "watchlist" (src/watchlist.py)
    raw_url,      \* what input() returned
    pc,           \* position of main()
    base_url,     \* base_detail_url (list) / watchlist_url (watchlist)
    output_file,  \* output_file
    first_page,   \* first_page
    soup,         \* soup of the current loop iteration
    total_pages,  \* total_pages
    page,         \* loop variable page
    all_movies,   \* all_movies
    files,        \* the files written: <<>> or one file
    console,      \* the lines printed
    requests,     \* the GET requests issued so far, with their outcome
    uncaught      \* the exception that left main(), "" when there is none

vars == <<mode, raw_url, pc, base_url, output_file, first_page, soup,
          total_pages, page, all_movies, files, console, requests, uncaught>>

----------------------------------------------------------------------------
(* Bounds *)

MaxPages == 3        \* largest page number a pagination label of a run names
MaxCards == 2        \* poster cards per page in a run
MaxSegs == 5         \* path segments of an input URL
MaxLabels == 3       \* links inside a pagination control
MaxPosters == 2      \* poster cards per page when extraction is checked alone
MaxRunSegs == 3      \* path segments of the rejected URLs typed into a run

----------------------------------------------------------------------------
(* Python str and list operations *)

Last(s) == s[Len(s)]

RECURSIVE LStrip(_, _)
LStrip(s, cs) ==
    IF s # <<>> /\ Head(s) \in cs THEN LStrip(Tail(s), cs) ELSE s

RECURSIVE RStrip(_, _)
RStrip(s, cs) ==
    IF s # <<>> /\ Last(s) \in cs THEN RStrip(SubSeq(s, 1, Len(s) - 1), cs) ELSE s

Strip(s, cs) == RStrip(LStrip(s, cs), cs)

\* the characters for which str.isspace() is true, which str.strip() removes
Whitespace ==
    {"\t", "\n", "U+000B", "\f", "\r", "U+001C", "U+001D", "U+001E",
     "U+001F", " ", "U+0085", "U+00A0", "U+1680", "U+2000", "U+2001",
     "U+2002", "U+2003", "U+2004", "U+2005", "U+2006", "U+2007", "U+2008",
     "U+2009", "U+200A", "U+2028", "U+2029", "U+202F", "U+205F", "U+3000"}

StripWS(s) == Strip(s, Whitespace)

\* c in s
Contains(s, c) == \E i \in 1..Len(s) : s[i] = c

\* s.find(c) + 1: the index of the first c in s, 0 when there is none
IndexOf(s, c) ==
    IF Contains(s, c)
    THEN CHOOSE i \in 1..Len(s) : s[i] = c /\ \A j \in 1..(i - 1) : s[j] # c
    ELSE 0

\* s with every character of cs taken out, as s.replace(c, "") for c in cs
Remove(s, cs) ==
    LET Kept(c) == c \notin cs IN SelectSeq(s, Kept)

\* s.split(c): never empty; ''.split(c) = ['']
RECURSIVE Split(_, _)
Split(s, c) ==
    IF ~Contains(s, c)
    THEN <<s>>
    ELSE LET k == IndexOf(s, c)
         IN  <<SubSeq(s, 1, k - 1)>> \o Split(SubSeq(s, k + 1, Len(s)), c)

\* sep.join(parts)
RECURSIVE Join(_, _)
Join(parts, sep) ==
    IF parts = <<>> THEN <<>>
    ELSE IF Len(parts) = 1 THEN parts[1]
    ELSE parts[1] \o sep \o Join(Tail(parts), sep)

StartsWith(s, p) == Len(s) >= Len(p) /\ SubSeq(s, 1, Len(p)) = p

EndsWith(s, p) == Len(s) >= Len(p) /\ SubSeq(s, Len(s) - Len(p) + 1, Len(s)) = p

AsciiLower ==
    {"a", "b", "c", "d", "e", "f", "g", "h", "i", "j", "k", "l", "m", "n",
     "o", "p", "q", "r", "s", "t", "u", "v", "w", "x", "y", "z"}

AsciiUpper ==
    {"A", "B", "C", "D", "E", "F", "G", "H", "I", "J", "K", "L", "M", "N",
     "O", "P", "Q", "R", "S", "T", "U", "V", "W", "X", "Y", "Z"}

AsciiLetters == AsciiLower \cup AsciiUpper

\* c.lower() of an ASCII character
Lower(c) ==
    CASE c = "A" -> "a" [] c = "B" -> "b" [] c = "C" -> "c" [] c = "D" -> "d"
      [] c = "E" -> "e" [] c = "F" -> "f" [] c = "G" -> "g" [] c = "H" -> "h"
      [] c = "I" -> "i" [] c = "J" -> "j" [] c = "K" -> "k" [] c = "L" -> "l"
      [] c = "M" -> "m" [] c = "N" -> "n" [] c = "O" -> "o" [] c = "P" -> "p"
      [] c = "Q" -> "q" [] c = "R" -> "r" [] c = "S" -> "s" [] c = "T" -> "t"
      [] c = "U" -> "u" [] c = "V" -> "v" [] c = "W" -> "w" [] c = "X" -> "x"
      [] c = "Y" -> "y" [] c = "Z" -> "z"
      [] OTHER -> c

\* s.lower() of an ASCII string
LowerStr(s) == [i \in 1..Len(s) |-> Lower(s[i])]

DecimalChars == {"0", "1", "2", "3", "4", "5", "6", "7", "8", "9"}

\* decimal digits of other scripts, here ARABIC-INDIC DIGIT THREE: isdigit()
\* accepts them and int() reads them
OtherDecimalChars == {"U+0663"}

\* characters that str.isdigit() accepts and int() rejects, here SUPERSCRIPT TWO
NonDecimalDigitChars == {"U+00B2"}

\* s.isdigit()
IsDigit(s) ==
    /\ s # <<>>
    /\ \A i \in 1..Len(s) :
           s[i] \in DecimalChars \cup OtherDecimalChars \cup NonDecimalDigitChars

DigitVal(c) ==
    CASE c = "0" -> 0 [] c = "1" -> 1 [] c = "2" -> 2 [] c = "3" -> 3
      [] c = "4" -> 4 [] c = "5" -> 5 [] c = "6" -> 6 [] c = "7" -> 7
      [] c = "8" -> 8 [] c = "9" -> 9 [] c = "U+0663" -> 3

\* sys.get_int_max_str_digits(): int() refuses a longer numeral
INT_MAX_STR_DIGITS == 4300

\* int(s) of a label that isdigit() accepted raises ValueError when a
\* character is no decimal digit or the label has more than 4300 digits
IntRaises(s) ==
    \/ s = <<>>
    \/ \E i \in 1..Len(s) : s[i] \notin DecimalChars \cup OtherDecimalChars
    \/ Len(s) > INT_MAX_STR_DIGITS

RECURSIVE IntOf(_)
IntOf(s) ==
    IF s = <<>> THEN 0
    ELSE 10 * IntOf(SubSeq(s, 1, Len(s) - 1)) + DigitVal(Last(s))

DigitChar(d) ==
    CASE d = 0 -> "0" [] d = 1 -> "1" [] d = 2 -> "2" [] d = 3 -> "3"
      [] d = 4 -> "4" [] d = 5 -> "5" [] d = 6 -> "6" [] d = 7 -> "7"
      [] d = 8 -> "8" [] d = 9 -> "9"

\* str(n) as in f"page/{page}/"
RECURSIVE StrOfNat(_)
StrOfNat(n) ==
    IF n < 10 THEN <<DigitChar(n)>>
    ELSE StrOfNat(n \div 10) \o <<DigitChar(n % 10)>>

RECURSIVE MaxOf(_)
MaxOf(ns) ==
    IF Len(ns) = 1 THEN ns[1]
    ELSE LET m == MaxOf(Tail(ns)) IN IF ns[1] >= m THEN ns[1] ELSE m

RECURSIVE Flatten(_)
Flatten(ss) == IF ss = <<>> THEN <<>> ELSE Head(ss) \o Flatten(Tail(ss))

RECURSIVE SeqsUpTo(_, _)
SeqsUpTo(S, n) ==
    IF n = 0 THEN {<<>>}
    ELSE LET shorter == SeqsUpTo(S, n - 1)
         IN  shorter \cup {Append(s, x) : s \in {t \in shorter : Len(t) = n - 1}, x \in S}

----------------------------------------------------------------------------
(* urllib.parse and ipaddress of Python 3.11, as urlparse (line 96) and     *)
(* urljoin (list.py line 128) use them                                     *)

\* _WHATWG_C0_CONTROL_OR_SPACE: urlsplit strips them off the head of a URL
C0ControlOrSpace ==
    {"U+0000", "U+0001", "U+0002", "U+0003", "U+0004", "U+0005", "U+0006",
     "U+0007", "U+0008", "\t", "\n", "U+000B", "\f", "\r", "U+000E",
     "U+000F", "U+0010", "U+0011", "U+0012", "U+0013", "U+0014", "U+0015",
     "U+0016", "U+0017", "U+0018", "U+0019", "U+001A", "U+001B", "U+001C",
     "U+001D", "U+001E", "U+001F", " "}

\* _UNSAFE_URL_BYTES_TO_REMOVE: urlsplit takes them out of a URL
UnsafeURLChars == {"\t", "\r", "\n"}

\* scheme_chars
SchemeChars == AsciiLetters \cup DecimalChars \cup {"+", "-", "."}

\* uses_params, uses_relative, uses_netloc
UsesParams ==
    {<<>>, <<"f", "t", "p">>, <<"h", "d", "l">>,
     <<"p", "r", "o", "s", "p", "e", "r", "o">>, <<"h", "t", "t", "p">>,
     <<"i", "m", "a", "p">>, <<"h", "t", "t", "p", "s">>,
     <<"s", "h", "t", "t", "p">>, <<"r", "t", "s", "p">>,
     <<"r", "t", "s", "p", "s">>, <<"r", "t", "s", "p", "u">>,
     <<"s", "i", "p">>, <<"s", "i", "p", "s">>, <<"m", "m", "s">>,
     <<"s", "f", "t", "p">>, <<"t", "e", "l">>}

UsesRelative ==
    {<<>>, <<"f", "t", "p">>, <<"h", "t", "t", "p">>,
     <<"g", "o", "p", "h", "e", "r">>, <<"n", "n", "t", "p">>,
     <<"i", "m", "a", "p">>, <<"w", "a", "i", "s">>,
     <<"f", "i", "l", "e">>, <<"h", "t", "t", "p", "s">>,
     <<"s", "h", "t", "t", "p">>, <<"m", "m", "s">>,
     <<"p", "r", "o", "s", "p", "e", "r", "o">>, <<"r", "t", "s", "p">>,
     <<"r", "t", "s", "p", "s">>, <<"r", "t", "s", "p", "u">>,
     <<"s", "f", "t", "p">>, <<"s", "v", "n">>,
     <<"s", "v", "n", "+", "s", "s", "h">>, <<"w", "s">>, <<"w", "s", "s">>}

UsesNetloc ==
    {<<>>, <<"f", "t", "p">>, <<"h", "t", "t", "p">>,
     <<"g", "o", "p", "h", "e", "r">>, <<"n", "n", "t", "p">>,
     <<"t", "e", "l", "n", "e", "t">>, <<"i", "m", "a", "p">>,
     <<"w", "a", "i", "s">>, <<"f", "i", "l", "e">>, <<"m", "m", "s">>,
     <<"h", "t", "t", "p", "s">>, <<"s", "h", "t", "t", "p">>,
     <<"s", "n", "e", "w", "s">>,
     <<"p", "r", "o", "s", "p", "e", "r", "o">>, <<"r", "t", "s", "p">>,
     <<"r", "t", "s", "p", "s">>, <<"r", "t", "s", "p", "u">>,
     <<"r", "s", "y", "n", "c">>, <<"s", "v", "n">>,
     <<"s", "v", "n", "+", "s", "s", "h">>, <<"s", "f", "t", "p">>,
     <<"n", "f", "s">>, <<"g", "i", "t">>,
     <<"g", "i", "t", "+", "s", "s", "h">>, <<"w", "s">>, <<"w", "s", "s">>}

\* the characters of the model that are not ASCII
NonAscii ==
    {"U+0085", "U+00A0", "U+00B2", "U+00E9", "U+0663", "U+1680", "U+2000",
     "U+2001", "U+2002", "U+2003", "U+2004", "U+2005", "U+2006", "U+2007",
     "U+2008", "U+2009", "U+200A", "U+2028", "U+2029", "U+202F", "U+205F",
     "U+2100", "U+3000"}

\* unicodedata.normalize('NFKC', c)
NFKC(c) ==
    CASE c = "U+00A0" -> <<" ">>
      [] c = "U+00B2" -> <<"2">>
      [] c = "U+2000" -> <<" ">>
      [] c = "U+2001" -> <<" ">>
      [] c = "U+2002" -> <<" ">>
      [] c = "U+2003" -> <<" ">>
      [] c = "U+2004" -> <<" ">>
      [] c = "U+2005" -> <<" ">>
      [] c = "U+2006" -> <<" ">>
      [] c = "U+2007" -> <<" ">>
      [] c = "U+2008" -> <<" ">>
      [] c = "U+2009" -> <<" ">>
      [] c = "U+200A" -> <<" ">>
      [] c = "U+202F" -> <<" ">>
      [] c = "U+205F" -> <<" ">>
      [] c = "U+2100" -> <<"a", "/", "c">>
      [] c = "U+3000" -> <<" ">>
      [] OTHER -> <<c>>

HexDigits == DecimalChars \cup {"a", "b", "c", "d", "e", "f", "A", "B", "C", "D", "E", "F"}

AllIn(s, cs) == \A i \in 1..Len(s) : s[i] \in cs

\* the number of characters at the head of s that are not in stops
RECURSIVE SpanLen(_, _)
SpanLen(s, stops) ==
    IF s = <<>> \/ Head(s) \in stops THEN 0 ELSE 1 + SpanLen(Tail(s), stops)

\* s.rfind(c) + 1: the index of the last c in s, 0 when there is none
RECURSIVE LastIndex(_, _)
LastIndex(s, c) ==
    IF s = <<>> THEN 0
    ELSE IF Last(s) = c THEN Len(s)
    ELSE LastIndex(SubSeq(s, 1, Len(s) - 1), c)

\* s.partition(c): what stands before the first c, whether there is one,
\* and what follows it
PartitionAt(s, k) ==
    IF k = 0 THEN [head |-> s, found |-> FALSE, tail |-> <<>>]
    ELSE [head |-> SubSeq(s, 1, k - 1), found |-> TRUE, tail |-> SubSeq(s, k + 1, Len(s))]

Partition(s, c) == PartitionAt(s, IndexOf(s, c))

\* ipaddress.IPv4Address._parse_octet does not raise
IPv4Octet(o) ==
    /\ o # <<>>
    /\ AllIn(o, DecimalChars)
    /\ Len(o) <= 3
    /\ (o = <<"0">> \/ o[1] # "0")
    /\ IntOf(o) <= 255

IPv4Octets(octets) == Len(octets) = 4 /\ \A i \in 1..4 : IPv4Octet(octets[i])

\* ipaddress.IPv4Address(s) does not raise
IPv4Valid(s) == s # <<>> /\ ~Contains(s, "/") /\ IPv4Octets(Split(s, "."))

\* ipaddress.IPv6Address._parse_hextet does not raise
Hextet(p) == p # <<>> /\ Len(p) <= 4 /\ AllIn(p, HexDigits)

\* _ip_int_from_string with a "::" at part k: parts_hi hextets before it and
\* parts_lo after it, none where the address begins or ends with the "::"
IPv6Skipped(parts, parts_hi, parts_lo) ==
    /\ parts[1] = <<>> => parts_hi = 0
    /\ Last(parts) = <<>> => parts_lo = 0
    /\ 8 - (parts_hi + parts_lo) >= 1
    /\ \A i \in 1..parts_hi : Hextet(parts[i])
    /\ \A i \in (Len(parts) - parts_lo + 1)..Len(parts) : Hextet(parts[i])

IPv6SkipAt(parts, k) ==
    IPv6Skipped(parts,
                IF parts[1] = <<>> THEN k - 2 ELSE k - 1,
                IF Last(parts) = <<>> THEN Len(parts) - k - 1 ELSE Len(parts) - k)

\* the empty parts that are neither the first nor the last
Skips(parts) == {i \in 2..(Len(parts) - 1) : parts[i] = <<>>}

\* the rest of IPv6Address._ip_int_from_string, on the parts between the
\* colons: at most nine parts and one "::", and eight hextets when there is
\* no "::"
IPv6Parts(parts) ==
    /\ Len(parts) <= 9
    /\ Cardinality(Skips(parts)) <= 1
    /\ IF Skips(parts) # {}
       THEN IPv6SkipAt(parts, CHOOSE i \in Skips(parts) : TRUE)
       ELSE Len(parts) = 8 /\ \A i \in 1..8 : Hextet(parts[i])

\* _ip_int_from_string on the parts: at least three, and a last part with a
\* "." an IPv4 address that stands for two hextets
IPv6Address(parts) ==
    /\ Len(parts) >= 3
    /\ IF Contains(Last(parts), ".")
       THEN /\ IPv4Valid(Last(parts))
            /\ IPv6Parts(SubSeq(parts, 1, Len(parts) - 1) \o <<<<"0">>, <<"0">>>>)
       ELSE IPv6Parts(parts)

\* _split_scope_id and what follows, on ip_str.partition('%')
IPv6Scoped(p) ==
    /\ p.found => (p.tail # <<>> /\ ~Contains(p.tail, "%"))
    /\ p.head # <<>>
    /\ IPv6Address(Split(p.head, ":"))

\* ipaddress.IPv6Address(s) does not raise
IPv6Valid(s) == ~Contains(s, "/") /\ IPv6Scoped(Partition(s, "%"))

\* re.match(r"\Av[a-fA-F0-9]+\..+\Z", h) on h.partition('.')
IPvFutureMatch(h, p) ==
    /\ p.found
    /\ Len(p.head) >= 2
    /\ AllIn(Tail(p.head), HexDigits)
    /\ p.tail # <<>>

\* _check_bracketed_host(h) raises ValueError
BracketedHostRaises(h) ==
    IF StartsWith(h, <<"v">>) THEN ~IPvFutureMatch(h, Partition(h, ".")) ELSE ~IPv6Valid(h)

\* urlsplit raises ValueError on a netloc with one bracket of a pair
\* missing, or with a bracketed host that is no IPv6 or IPvFuture address
BracketsRaise(netloc) ==
    IF Contains(netloc, "[") /\ Contains(netloc, "]")
    THEN BracketedHostRaises(Partition(Partition(netloc, "[").tail, "]").head)
    ELSE Contains(netloc, "[") \/ Contains(netloc, "]")

\* the NFKC form of n
NFKCStr(n) == Flatten([i \in 1..Len(n) |-> NFKC(n[i])])

\* _checknetloc on n, the netloc without the characters @:#?
NormalizedRaises(n) ==
    /\ n # NFKCStr(n)
    /\ \E c \in {"/", "?", "#", "@", ":"} : Contains(NFKCStr(n), c)

\* _checknetloc(netloc) raises ValueError: a netloc that is not ASCII and
\* whose NFKC form, the characters @:#? left out, differs from it and
\* holds one of /?#@:
checknetloc_raises(netloc) ==
    /\ \E i \in 1..Len(netloc) : netloc[i] \in NonAscii
    /\ NormalizedRaises(Remove(netloc, {"@", ":", "#", "?"}))

\* the end of urlsplit: the result, from url.split('#', 1) and
\* url.split('?', 1)
SplitResult(scheme, hasNetloc, netloc, q, fragment) ==
    [raises |-> (hasNetloc /\ BracketsRaise(netloc)) \/ checknetloc_raises(netloc),
     scheme |-> scheme, netloc |-> netloc,
     path |-> q.head, query |-> q.tail, fragment |-> fragment]

SplitQuery(scheme, hasNetloc, netloc, f) ==
    SplitResult(scheme, hasNetloc, netloc, Partition(f.head, "?"), f.tail)

\* _splitnetloc(url, 2) on what follows the "//", n characters of it before
\* the first "/", "?" or "#"
SplitNetlocAt(scheme, s, n) ==
    SplitQuery(scheme, TRUE, SubSeq(s, 1, n), Partition(SubSeq(s, n + 1, Len(s)), "#"))

\* urlsplit on what follows the scheme
SplitNetloc(scheme, url) ==
    IF StartsWith(url, <<"/", "/">>)
    THEN SplitNetlocAt(scheme, SubSeq(url, 3, Len(url)),
                       SpanLen(SubSeq(url, 3, Len(url)), {"/", "?", "#"}))
    ELSE SplitQuery(scheme, FALSE, <<>>, Partition(url, "#"))

\* urlsplit on the cleaned url and the index of its first ":"
SplitScheme(url, colon, default_scheme) ==
    IF /\ colon > 1
       /\ url[1] \in AsciiLetters
       /\ AllIn(SubSeq(url, 1, colon - 1), SchemeChars)
    THEN SplitNetloc(LowerStr(SubSeq(url, 1, colon - 1)), SubSeq(url, colon + 1, Len(url)))
    ELSE SplitNetloc(default_scheme, url)

SplitCleaned(url, default_scheme) == SplitScheme(url, IndexOf(url, ":"), default_scheme)

\* urlsplit(url, scheme): [raises, scheme, netloc, path, query, fragment].
\* Leading C0 controls and spaces are stripped and tab, CR and LF taken out;
\* the scheme is what stands before the first ":" when it begins with an
\* ASCII letter and holds scheme characters only, lowered; the netloc is what
\* stands between a following "//" and the next "/", "?" or "#"; the
\* fragment follows the first "#" and the query the first "?".
urlsplit(url, default_scheme) ==
    SplitCleaned(Remove(LStrip(url, C0ControlOrSpace), UnsafeURLChars),
                 Remove(Strip(default_scheme, C0ControlOrSpace), UnsafeURLChars))

\* _splitparams(url) of a url that holds a ";": the index of the ";" that
\* splits it, 0 when the last segment holds none
splitparams(url) ==
    IF Contains(SubSeq(url, LastIndex(url, "/") + 1, Len(url)), ";")
    THEN LastIndex(url, "/") + IndexOf(SubSeq(url, LastIndex(url, "/") + 1, Len(url)), ";")
    ELSE 0

\* the result of urlparse from the result r of urlsplit, the path split at
\* index semi when semi is not 0
ParseResult(r, semi) ==
    [raises |-> r.raises, scheme |-> r.scheme, netloc |-> r.netloc,
     path |-> IF semi = 0 THEN r.path ELSE SubSeq(r.path, 1, semi - 1),
     params |-> IF semi = 0 THEN <<>> ELSE SubSeq(r.path, semi + 1, Len(r.path)),
     query |-> r.query, fragment |-> r.fragment]

SplitParams(r) ==
    ParseResult(r, IF r.scheme \in UsesParams /\ Contains(r.path, ";")
                   THEN splitparams(r.path) ELSE 0)

\* urlparse(url, scheme): urlsplit, and the ;params of the last path segment
\* split off when the scheme is one of uses_params
urlparse_with(url, default_scheme) == SplitParams(urlsplit(url, default_scheme))

\* urlparse(url)
urlparse(url) == urlparse_with(url, <<>>)

\* urlunparse(components)
urlunparse(scheme, netloc, path, params, query, fragment) ==
    LET url == IF params # <<>> THEN path \o <<";">> \o params ELSE path
        slashed == IF url # <<>> /\ Head(url) # "/" THEN <<"/">> \o url ELSE url
        located == IF netloc # <<>>
                      \/ (scheme # <<>> /\ scheme \in UsesNetloc
                            /\ ~StartsWith(url, <<"/", "/">>))
                   THEN <<"/", "/">> \o netloc \o slashed
                   ELSE url
    IN  (IF scheme # <<>> THEN scheme \o <<":">> ELSE <<>>)
            \o located
            \o (IF query # <<>> THEN <<"?">> \o query ELSE <<>>)
            \o (IF fragment # <<>> THEN <<"#">> \o fragment ELSE <<>>)

\* the segments without the "." ones, each ".." taking away the segment
\* before it, if there is one
RECURSIVE ResolveDots(_, _)
ResolveDots(segments, resolved) ==
    IF segments = <<>> THEN resolved
    ELSE IF Head(segments) = <<".", ".">>
    THEN ResolveDots(Tail(segments),
                     IF resolved # <<>> THEN SubSeq(resolved, 1, Len(resolved) - 1)
                     ELSE resolved)
    ELSE IF Head(segments) = <<".">> THEN ResolveDots(Tail(segments), resolved)
    ELSE ResolveDots(Tail(segments), Append(resolved, Head(segments)))

NonEmpty(seg) == seg # <<>>

\* segments[1:-1] = filter(None, segments[1:-1])
DropEmptyInside(segments) ==
    IF Len(segments) < 2 THEN segments
    ELSE <<Head(segments)>>
             \o SelectSeq(SubSeq(segments, 2, Len(segments) - 1), NonEmpty)
             \o <<Last(segments)>>

\* the base path without its last segment when that is no directory
BaseDir(base_parts) ==
    IF Last(base_parts) # <<>> THEN SubSeq(base_parts, 1, Len(base_parts) - 1)
    ELSE base_parts

\* '/'.join(resolved_path) or '/'
OrSlash(path) == IF path = <<>> THEN <<"/">> ELSE path

\* resolved_path: the dot segments resolved, and an empty segment at the end
\* when the last segment was a dot segment
ResolvedSegments(segments) ==
    IF Last(segments) \in {<<".">>, <<".", ".">>}
    THEN Append(ResolveDots(segments, <<>>), <<>>)
    ELSE ResolveDots(segments, <<>>)

ResolvedPath(segments) == OrSlash(Join(ResolvedSegments(segments), <<"/">>))

\* urljoin on the parsed base b and the parsed url r
JoinParsed(base, url, b, r) ==
    IF r.scheme # b.scheme \/ r.scheme \notin UsesRelative THEN url
    ELSE IF r.scheme \in UsesNetloc /\ r.netloc # <<>>
    THEN urlunparse(r.scheme, r.netloc, r.path, r.params, r.query, r.fragment)
    ELSE IF r.path = <<>> /\ r.params = <<>>
    THEN urlunparse(r.scheme, IF r.scheme \in UsesNetloc THEN b.netloc ELSE r.netloc,
                    b.path, b.params,
                    IF r.query = <<>> THEN b.query ELSE r.query, r.fragment)
    ELSE urlunparse(r.scheme, IF r.scheme \in UsesNetloc THEN b.netloc ELSE r.netloc,
                    ResolvedPath(IF StartsWith(r.path, <<"/">>)
                                 THEN Split(r.path, "/")
                                 ELSE DropEmptyInside(BaseDir(Split(b.path, "/"))
                                                          \o Split(r.path, "/"))),
                    r.params, r.query, r.fragment)

JoinBase(base, url, b) == JoinParsed(base, url, b, urlparse_with(url, b.scheme))

\* urljoin(base, url): a url of another scheme, or of a scheme that is not
\* relative, is kept; a url with a netloc takes the scheme of the base; an
\* empty path takes the path of the base; any other path replaces the last
\* segment of the base path, the empty segments inside being dropped and the
\* dot segments resolved
urljoin(base, url) ==
    IF base = <<>> THEN url
    ELSE IF url = <<>> THEN base
    ELSE JoinBase(base, url, urlparse(base))

----------------------------------------------------------------------------
(* Mode Resolver: main(), lines 90-117 of list.py, 90-111 of watchlist.py *)

\* 'https', 'letterboxd.com', 'list', 'watchlist', 'detail', 'page', '.csv'
Scheme == <<"h", "t", "t", "p", "s">>
Site == <<"l", "e", "t", "t", "e", "r", "b", "o", "x", "d", ".", "c", "o", "m">>
ListWord == <<"l", "i", "s", "t">>
WatchlistWord == <<"w", "a", "t", "c", "h", "l", "i", "s", "t">>
DetailWord == <<"d", "e", "t", "a", "i", "l">>
PageWord == <<"p", "a", "g", "e">>
Csv == <<".", "c", "s", "v">>

\* 'https://letterboxd.com'
Origin == Scheme \o <<":", "/", "/">> \o Site

\* the host is not compared
netloc_any(netloc) == TRUE

netloc_ok(netloc) == netloc = Site

PathParts(url) == Split(Strip(urlparse(url).path, {"/"}), "/")

list_shape_ok(path_parts) == ~(Len(path_parts) < 3 \/ path_parts[2] # ListWord)

watchlist_shape_ok(path_parts) ==
    ~(Len(path_parts) < 2 \/ path_parts[2] # WatchlistWord)

\* main() returns after printing msg
Rejected(msg) ==
    [ok |-> FALSE, raises |-> FALSE, msg |-> msg, base_url |-> <<>>, output_file |-> <<>>]

\* urlparse at line 96 raises ValueError, outside the try of main()
Raised ==
    [ok |-> FALSE, raises |-> TRUE, msg |-> "", base_url |-> <<>>, output_file |-> <<>>]

\* '_'.join(filter_parts) if filter_parts else ''
filter_str_of(filter_parts) ==
    IF filter_parts # <<>> THEN Join(filter_parts, <<"_">>) ELSE <<>>

list_detail_url(username, list_name, filter_str) ==
    Origin \o <<"/">> \o username \o <<"/">> \o ListWord \o <<"/">> \o list_name
        \o <<"/">> \o DetailWord \o <<"/">>
        \o (IF filter_str # <<>> THEN filter_str \o <<"/">> ELSE <<>>)

\* lines 105-117 of list.py
ListTarget(username, list_name, filter_str) ==
    [ok |-> TRUE, raises |-> FALSE, msg |-> "",
     base_url |-> list_detail_url(username, list_name, filter_str),
     output_file |-> username \o <<"_">> \o list_name
         \o (IF filter_str # <<>> THEN <<"_">> \o filter_str ELSE <<>>)
         \o Csv]

\* lines 100-117 of list.py
ResolveListParts(path_parts) ==
    IF ~list_shape_ok(path_parts)
    THEN Rejected("Invalid list URL: does not contain '/list/' or missing list name")
    ELSE ListTarget(path_parts[1], path_parts[3],
                    filter_str_of(SubSeq(path_parts, 4, Len(path_parts))))

\* lines 96-117 of list.py
ResolveListParsed(parsed_url) ==
    IF parsed_url.raises THEN Raised
    ELSE IF ~netloc_ok(parsed_url.netloc)
    THEN Rejected("Invalid URL: not a letterboxd.com URL")
    ELSE ResolveListParts(Split(Strip(parsed_url.path, {"/"}), "/"))

\* lines 91-117 of list.py
ResolveListURL(list_url) ==
    IF list_url = <<>> THEN Rejected("No URL provided.")
    ELSE ResolveListParsed(urlparse(list_url))

ResolveList(input) == ResolveListURL(StripWS(input))

\* lines 105-111 of watchlist.py
WatchlistTarget(watchlist_url, username, filter_str) ==
    [ok |-> TRUE, raises |-> FALSE, msg |-> "",
     base_url |-> IF ~EndsWith(watchlist_url, <<"/">>)
                  THEN watchlist_url \o <<"/">> ELSE watchlist_url,
     output_file |-> IF filter_str # <<>>
                     THEN username \o <<"_">> \o WatchlistWord \o <<"_">>
                              \o filter_str \o Csv
                     ELSE username \o <<"_">> \o WatchlistWord \o Csv]

\* lines 100-111 of watchlist.py
ResolveWatchlistParts(watchlist_url, path_parts) ==
    IF ~watchlist_shape_ok(path_parts)
    THEN Rejected("Invalid watchlist URL: does not contain '/watchlist/'")
    ELSE WatchlistTarget(watchlist_url, path_parts[1],
                         filter_str_of(SubSeq(path_parts, 3, Len(path_parts))))

\* lines 96-111 of watchlist.py
ResolveWatchlistParsed(watchlist_url, parsed_url) ==
    IF parsed_url.raises THEN Raised
    ELSE IF ~netloc_ok(parsed_url.netloc)
    THEN Rejected("Invalid URL: not a letterboxd.com URL")
    ELSE ResolveWatchlistParts(watchlist_url, Split(Strip(parsed_url.path, {"/"}), "/"))

\* lines 91-111 of watchlist.py
ResolveWatchlistURL(watchlist_url) ==
    IF watchlist_url = <<>> THEN Rejected("No URL provided.")
    ELSE ResolveWatchlistParsed(watchlist_url, urlparse(watchlist_url))

ResolveWatchlist(input) == ResolveWatchlistURL(StripWS(input))

Resolve(m, input) == IF m = "list" THEN ResolveList(input) ELSE ResolveWatchlist(input)

\* list.py line 128: urljoin(base_detail_url, f"page/{page}/");
\* watchlist.py line 122: f"{watchlist_url}page/{page}/"
page_url(m, base, k) ==
    IF m = "list"
    THEN urljoin(base, PageWord \o <<"/">> \o StrOfNat(k) \o <<"/">>)
    ELSE base \o PageWord \o <<"/">> \o StrOfNat(k) \o <<"/">>

----------------------------------------------------------------------------
(* Page Fetcher: fetch_page, lines 6-26 *)

HTTP_OK == 200

\* A response is what requests.get does: it raises (exc), or returns a status
\* and a body.  fetch_page returns the parsed body on status 200 and raises
\* otherwise; an exception of requests.get propagates.
\* the status of the response is not tested
fetch_page_unchecked(resp) == [raised |-> resp.exc, soup |-> resp.body]

fetch_page(resp) ==
    IF ~resp.exc /\ resp.status = HTTP_OK
    THEN [raised |-> FALSE, soup |-> resp.body]
    ELSE [raised |-> TRUE, soup |-> resp.body]

----------------------------------------------------------------------------
(* Entry Extractor: extract_movies, lines 28-63 *)

\* "Poster for "
PosterFor == <<"P", "o", "s", "t", "e", "r", " ", "f", "o", "r", " ">>

\* lines 40-48; a poster is [hasImg, hasAlt, alt, hasLink, link]
title_of(poster) ==
    IF poster.hasImg /\ poster.hasAlt
    THEN IF StartsWith(poster.alt, PosterFor)
         THEN StripWS(SubSeq(poster.alt, Len(PosterFor) + 1, Len(poster.alt)))
         ELSE StripWS(poster.alt)
    ELSE <<>>

\* poster.get('data-target-link', '')
link_of(poster) == IF poster.hasLink THEN poster.link ELSE <<>>

\* the token's length is not tested
year_of_any_length(link) ==
    LET slug == Last(Split(Strip(link, {"/"}), "/"))
        slug_parts == Split(slug, "-")
    IN  IF slug_parts # <<>> /\ IsDigit(Last(slug_parts)) THEN Last(slug_parts) ELSE <<>>

\* lines 53-58
year_of(link) ==
    LET slug == Last(Split(Strip(link, {"/"}), "/"))
        slug_parts == Split(slug, "-")
    IN  IF slug_parts # <<>> /\ IsDigit(Last(slug_parts)) /\ Len(Last(slug_parts)) = 4
        THEN Last(slug_parts)
        ELSE <<>>

\* lines 49-62
extract_card(poster) ==
    LET link == link_of(poster)
    IN  [year  |-> IF link # <<>> THEN year_of(link) ELSE <<>>,
         title |-> title_of(poster),
         url   |-> IF link # <<>> THEN Origin \o link ELSE <<>>]

HasLink(poster) == link_of(poster) # <<>>

\* a card without a target link is skipped
extract_linked_movies(s) ==
    LET linked == SelectSeq(s.posters, HasLink)
    IN  [i \in 1..Len(linked) |-> extract_card(linked[i])]

\* a soup is [hasPagination, labels, posters]: the labels of the links inside
\* the first div.pagination, and the div.film-poster elements in document order
extract_movies(s) == [i \in 1..Len(s.posters) |-> extract_card(s.posters[i])]

----------------------------------------------------------------------------
(* Pagination Resolver: get_total_pages, lines 65-80 *)

\* [raised, value]: int(link.text) raises ValueError on a label that isdigit()
\* accepts and int() rejects
get_total_pages(s) ==
    IF s.hasPagination
    THEN LET numeric == SelectSeq(s.labels, IsDigit)
         IN  IF \E i \in 1..Len(numeric) : IntRaises(numeric[i])
             THEN [raised |-> TRUE, value |-> 0]
             ELSE LET page_numbers == [i \in 1..Len(numeric) |-> IntOf(numeric[i])]
                  IN  [raised |-> FALSE,
                       value |-> IF page_numbers # <<>> THEN MaxOf(page_numbers) ELSE 1]
    ELSE [raised |-> FALSE, value |-> 1]

----------------------------------------------------------------------------
(* Aggregator/Exporter: main(), lines 119-146 of list.py *)

\* the page's movies are put in front
extend_front(acc, movies) == movies \o acc

\* all_movies.extend(movies)
extend(acc, movies) == acc \o movies

\* range(1, total_pages + 1) still has the value k to give
in_range(k, n) == k <= n

\* the rows csv.DictWriter writes for movies
rows_of(movies) ==
    [i \in 1..Len(movies) |-> <<movies[i].year, movies[i].title, movies[i].url>>]

FieldNames == <<"year", "title", "url">>

\* lines 137-142: the file opened for writing, the header row, one row per movie
written_file(name, movies) ==
    [name |-> name, complete |-> TRUE, header |-> FieldNames, rows |-> rows_of(movies)]

\* the file a write that raised leaves behind: it ends with the header and
\* the first n rows, or inside what follows them
truncated_file(name, movies, header, n) ==
    [name |-> name, complete |-> FALSE,
     header |-> IF header THEN FieldNames ELSE <<>>,
     rows |-> SubSeq(rows_of(movies), 1, n)]

NoSoup == [hasPagination |-> FALSE, labels |-> <<>>, posters |-> <<>>]

----------------------------------------------------------------------------
(* Inputs *)

Poster(hasImg, hasAlt, alt, hasLink, link) ==
    [hasImg |-> hasImg, hasAlt |-> hasAlt, alt |-> alt, hasLink |-> hasLink, link |-> link]

\* "/film/dune-2021/" and "Poster for Dune", shortened
DuneLink == <<"/", "f", "/", "d", "-", "2", "0", "2", "1", "/">>
DuneAlt == PosterFor \o <<"D">>

\* "/film/the-matrix/", shortened
MatrixLink == <<"/", "f", "/", "t", "-", "m", "/">>

DuneCard == Poster(TRUE, TRUE, DuneAlt, TRUE, DuneLink)
BareCard == Poster(FALSE, FALSE, <<>>, FALSE, <<>>)

\* the cards of the pages a run is served
RunCards == {DuneCard, BareCard}

RunBodies == SeqsUpTo(RunCards, MaxCards)

\* the labels of the first page of a run: the numerals 0..MaxPages, "N" (Next)
\* and a superscript two
RunLabels == {StrOfNat(k) : k \in 0..MaxPages} \cup {<<"N">>, <<"U+00B2">>}

RunFirstPages ==
    {[hasPagination |-> FALSE, labels |-> <<>>, posters |-> b] : b \in RunBodies}
    \cup {[hasPagination |-> TRUE, labels |-> ls, posters |-> b] :
              ls \in SeqsUpTo(RunLabels, 1), b \in RunBodies}

\* the later pages of a run; main() reads only their poster cards
RunLaterPages ==
    {[hasPagination |-> FALSE, labels |-> <<>>, posters |-> b] : b \in RunBodies}

Failures ==
    {[exc |-> TRUE, status |-> 0, body |-> NoSoup],
     [exc |-> FALSE, status |-> 500, body |-> NoSoup]}

Responses(pages) == Failures \cup {[exc |-> FALSE, status |-> HTTP_OK, body |-> b] : b \in pages}

\* what stands before the host of an input URL: a scheme and "//", "//"
\* alone, or nothing
Prefixes == {<<"h", "t", "t", "p", "s", ":", "/", "/">>, <<"h", "t", "t", "p", ":", "/", "/">>, <<"/", "/">>, <<>>}

\* an input URL: what stands before the host, the host, the path segments
\* joined by "/", an optional trailing "/" and optional trailing white space
MkURLWith(pre, netloc, segs, trail, pad) ==
    pre \o netloc
        \o (IF segs # <<>> THEN <<"/">> \o Join(segs, <<"/">>) ELSE <<>>)
        \o (IF trail THEN <<"/">> ELSE <<>>)
        \o (IF pad THEN <<" ">> ELSE <<>>)

MkURL(netloc, segs, trail, pad) ==
    MkURLWith(Scheme \o <<":", "/", "/">>, netloc, segs, trail, pad)

\* an owner, a list name, two filter segments, another host
A == <<"a", "l">>
F == <<"f", "a", "v">>
D == <<"d", "e", "c">>
Y == <<"9", "0", "s">>
L == ListWord
W == WatchlistWord
OtherSite == <<"e", "x", ".", "o", "r", "g">>

Hosts == {Site, OtherSite}

SegAlphabet == {A, L, W, <<>>}

\* every URL of at most n path segments
URLsUpTo(n) ==
    {<<>>} \cup {MkURLWith(pre, h, segs, trail, pad) :
                     pre \in Prefixes, h \in Hosts, segs \in SeqsUpTo(SegAlphabet, n),
                     trail \in BOOLEAN, pad \in BOOLEAN}

\* URLs with another scheme, a scheme in capitals, ;params under a scheme
\* with and without them, a tab inside and at the end, other white space at
\* the ends, a control character at the head, brackets in the host, a host
\* that is not ASCII, a port, and dot segments
OddURLs ==
    { <<"f", "t", "p", ":", "/", "/", "l", "e", "t", "t", "e", "r", "b", "o", "x", "d", ".", "c", "o", "m", "/", "a", "l", "/", "l", "i", "s", "t", "/", "f", "a", "v", "/">>,
      <<"H", "T", "T", "P", "S", ":", "/", "/", "l", "e", "t", "t", "e", "r", "b", "o", "x", "d", ".", "c", "o", "m", "/", "a", "l", "/", "w", "a", "t", "c", "h", "l", "i", "s", "t", "/">>,
      <<"x", ":", "/", "/", "l", "e", "t", "t", "e", "r", "b", "o", "x", "d", ".", "c", "o", "m", "/", "a", "l", "/", "l", "i", "s", "t", "/", "f", "a", "v", ";", "p">>,
      <<"w", "s", ":", "/", "/", "l", "e", "t", "t", "e", "r", "b", "o", "x", "d", ".", "c", "o", "m", "/", "a", "l", "/", "w", "a", "t", "c", "h", "l", "i", "s", "t", "/", "d", "e", "c", ";", "p", "/">>,
      <<"h", "t", "t", "p", "s", ":", "/", "/", "l", "e", "t", "t", "e", "r", "b", "o", "x", "d", ".", "c", "o", "m", "/", "a", "l", "/", "l", "i", "s", "t", "/", "f", "a", "v", ";", "p">>,
      <<"h", "t", "t", "p", "s", ":", "/", "/", "l", "e", "t", "t", "e", "r", "b", "o", "x", "d", ".", "c", "o", "m", "/", "a", "l", "/", "w", "a", "t", "c", "h", "\t", "l", "i", "s", "t", "/">>,
      <<"h", "t", "t", "p", "s", ":", "/", "/", "l", "e", "t", "t", "e", "r", "b", "o", "x", "d", ".", "c", "o", "m", "/", "a", "l", "/", "l", "i", "\n", "s", "t", "/", "f", "a", "v">>,
      <<"h", "t", "t", "p", "s", ":", "/", "/", "l", "e", "t", "t", "e", "r", "b", "o", "x", "d", ".", "c", "o", "m", "/", "a", "l", "/", "l", "i", "s", "t", "/", "f", "a", "v", "/", "\t">>,
      <<"\f", "h", "t", "t", "p", "s", ":", "/", "/", "l", "e", "t", "t", "e", "r", "b", "o", "x", "d", ".", "c", "o", "m", "/", "a", "l", "/", "w", "a", "t", "c", "h", "l", "i", "s", "t", "U+00A0">>,
      <<"U+0001", "h", "t", "t", "p", "s", ":", "/", "/", "l", "e", "t", "t", "e", "r", "b", "o", "x", "d", ".", "c", "o", "m", "/", "a", "l", "/", "l", "i", "s", "t", "/", "f", "a", "v", "/">>,
      <<"U+0001", " ", "h", "t", "t", "p", "s", ":", "/", "/", "l", "e", "t", "t", "e", "r", "b", "o", "x", "d", ".", "c", "o", "m", "/", "a", "l", "/", "w", "a", "t", "c", "h", "l", "i", "s", "t", "/">>,
      <<"h", "t", "t", "p", "s", ":", "/", "/", "[", "l", "e", "t", "t", "e", "r", "b", "o", "x", "d", ".", "c", "o", "m", "/", "a", "l", "/", "l", "i", "s", "t", "/", "f", "a", "v", "/">>,
      <<"h", "t", "t", "p", "s", ":", "/", "/", "l", "e", "t", "t", "e", "r", "b", "o", "x", "d", ".", "c", "o", "m", "]", "/", "a", "l", "/", "w", "a", "t", "c", "h", "l", "i", "s", "t", "/">>,
      <<"h", "t", "t", "p", "s", ":", "/", "/", "[", "l", "e", "t", "t", "e", "r", "b", "o", "x", "d", ".", "c", "o", "m", "]", "/", "a", "l", "/", "l", "i", "s", "t", "/", "f", "a", "v", "/">>,
      <<"h", "t", "t", "p", "s", ":", "/", "/", "[", ":", ":", "1", "]", "/", "a", "l", "/", "l", "i", "s", "t", "/", "f", "a", "v", "/">>,
      <<"h", "t", "t", "p", "s", ":", "/", "/", "[", "1", ":", ":", "2", ":", "1", ".", "2", ".", "3", ".", "4", "%", "e", "]", "/", "a", "l", "/", "w", "a", "t", "c", "h", "l", "i", "s", "t", "/">>,
      <<"h", "t", "t", "p", "s", ":", "/", "/", "[", "1", ":", "2", ":", "3", ":", "4", ":", "5", ":", "6", ":", "7", ":", "8", ":", "9", "]", "/", "a", "l", "/", "w", "a", "t", "c", "h", "l", "i", "s", "t", "/">>,
      <<"h", "t", "t", "p", "s", ":", "/", "/", "[", "v", "1", ".", "x", "]", "/", "a", "l", "/", "w", "a", "t", "c", "h", "l", "i", "s", "t", "/">>,
      <<"h", "t", "t", "p", "s", ":", "/", "/", "[", "v", ".", "x", "]", "/", "a", "l", "/", "l", "i", "s", "t", "/", "f", "a", "v", "/">>,
      <<"h", "t", "t", "p", "s", ":", "/", "/", "l", "e", "t", "t", "e", "r", "b", "o", "x", "d", ".", "c", "o", "m", "U+2100", "/", "a", "l", "/", "l", "i", "s", "t", "/", "f", "a", "v", "/">>,
      <<"h", "t", "t", "p", "s", ":", "/", "/", "l", "e", "t", "t", "e", "r", "b", "o", "x", "d", ".", "c", "o", "m", "U+00E9", "/", "a", "l", "/", "w", "a", "t", "c", "h", "l", "i", "s", "t", "/">>,
      <<"h", "t", "t", "p", "s", ":", "/", "/", "l", "e", "t", "t", "e", "r", "b", "o", "x", "d", ".", "c", "o", "m", ":", "4", "4", "3", "/", "a", "l", "/", "l", "i", "s", "t", "/", "f", "a", "v", "/">>,
      <<"l", "e", "t", "t", "e", "r", "b", "o", "x", "d", ".", "c", "o", "m", ":", "4", "4", "3", "/", "a", "l", "/", "w", "a", "t", "c", "h", "l", "i", "s", "t", "/">>,
      <<"h", "t", "t", "p", "s", ":", "/", "l", "e", "t", "t", "e", "r", "b", "o", "x", "d", ".", "c", "o", "m", "/", "a", "l", "/", "l", "i", "s", "t", "/", "f", "a", "v", "/">>,
      <<"h", "t", "t", "p", "s", ":", "/", "/", "l", "e", "t", "t", "e", "r", "b", "o", "x", "d", ".", "c", "o", "m", "/", "a", "l", "/", "l", "i", "s", "t", "/", "f", "a", "v", "/", ".", ".", "/", "d", "e", "c", "/", ".", "/">>,
      <<"h", "t", "t", "p", "s", ":", "/", "/", "l", "e", "t", "t", "e", "r", "b", "o", "x", "d", ".", "c", "o", "m", "/", "a", "l", "/", "w", "a", "t", "c", "h", "l", "i", "s", "t", "/", "d", "e", "c", "/", "9", "0", "s", "?", "q", "#", "f">> }

\* the URLs typed into a run: the ones below, and every URL above that the
\* running script does not accept
SampleURLs ==
    { <<>>, <<" ">>,
      MkURLWith(<<>>, Site, <<A, L, F>>, FALSE, FALSE),
      MkURL(OtherSite, <<A, L, F>>, TRUE, FALSE),
      MkURL(OtherSite, <<A, W>>, TRUE, FALSE),
      MkURL(Site, <<A, F, L>>, TRUE, FALSE),
      MkURL(Site, <<W, A>>, TRUE, FALSE),
      MkURLWith(<<"h", "t", "t", "p", ":", "/", "/">>, Site, <<A, L, F, D, Y>>, TRUE, FALSE),
      MkURL(Site, <<A, L, <<>>, A>>, FALSE, FALSE),
      <<"H", "t", "t", "p", ":", "/", "/", "l", "e", "t", "t", "e", "r", "b", "o", "x", "d", ".", "c", "o", "m", "/", "a", "l", "/", "w", "a", "t", "c", "h", "\t", "l", "i", "s", "t", "\t", " ">>,
      MkURLWith(<<"/", "/">>, Site, <<A, W, D, Y>>, TRUE, FALSE) }

RunURLs(m) ==
    SampleURLs \cup {u \in URLsUpTo(MaxRunSegs) \cup OddURLs : ~Resolve(m, u).ok}

----------------------------------------------------------------------------
(* main() *)

Init ==
    /\ mode \in {"list", "watchlist"}
    /\ raw_url = <<>>
    /\ pc = "Start"
    /\ base_url = <<>>
    /\ output_file = <<>>
    /\ first_page = NoSoup
    /\ soup = NoSoup
    /\ total_pages = 0
    /\ page = 0
    /\ all_movies = <<>>
    /\ files = <<>>
    /\ console = <<>>
    /\ requests = <<>>
    /\ uncaught = ""

\* line 90: input(...)
ReadInput ==
    /\ pc = "Start"
    /\ \E u \in RunURLs(mode) : raw_url' = u
    /\ pc' = "ResolvingMode"
    /\ UNCHANGED <<mode, base_url, output_file, first_page, soup, total_pages, page,
                   all_movies, files, console, requests, uncaught>>

\* lines 90-117: strip, validate, derive the first-page address and the file
\* name.  A ValueError of urlparse (line 96) is raised outside the try of
\* main(): it leaves main() and nothing is printed.
ResolveMode ==
    /\ pc = "ResolvingMode"
    /\ LET r == Resolve(mode, raw_url)
       IN  IF r.ok
           THEN /\ base_url' = r.base_url
                /\ output_file' = r.output_file
                /\ pc' = "FetchingFirstPage"
                /\ UNCHANGED <<console, uncaught>>
           ELSE IF r.raises
           THEN /\ uncaught' = "ValueError"
                /\ pc' = "Failed"
                /\ UNCHANGED <<base_url, output_file, console>>
           ELSE /\ console' = Append(console, r.msg)
                /\ pc' = "Failed"
                /\ UNCHANGED <<base_url, output_file, uncaught>>
    /\ UNCHANGED <<mode, raw_url, first_page, soup, total_pages, page, all_movies,
                   files, requests>>

\* line 121: first_page = fetch_page(base_detail_url); lines 145-146 on a raise
FetchFirstPage ==
    /\ pc = "FetchingFirstPage"
    /\ \E resp \in Responses(RunFirstPages) :
         LET r == fetch_page(resp)
         IN  /\ requests' = Append(requests,
                    [page |-> 1, url |-> base_url, exc |-> resp.exc,
                     status |-> resp.status, body |-> resp.body])
             /\ IF r.raised
                THEN /\ console' = Append(console, "An error occurred: Failed to fetch page")
                     /\ pc' = "Failed"
                     /\ UNCHANGED first_page
                ELSE /\ first_page' = r.soup
                     /\ pc' = "ResolvingPagination"
                     /\ UNCHANGED console
    /\ UNCHANGED <<mode, raw_url, base_url, output_file, soup, total_pages, page,
                   all_movies, files, uncaught>>

\* lines 122-126: total_pages, all_movies = [], the loop's first test
ResolvePagination ==
    /\ pc = "ResolvingPagination"
    /\ LET r == get_total_pages(first_page)
       IN  IF r.raised
           THEN /\ console' = Append(console, "An error occurred: invalid literal for int()")
                /\ pc' = "Failed"
                /\ UNCHANGED <<total_pages, page, all_movies>>
           ELSE /\ total_pages' = r.value
                /\ all_movies' = <<>>
                /\ page' = 1
                /\ pc' = IF in_range(1, r.value) THEN "FetchingPage" ELSE "Exporting"
                /\ UNCHANGED console
    /\ UNCHANGED <<mode, raw_url, base_url, output_file, first_page, soup, files, requests,
                   uncaught>>

\* lines 127-131 with page = 1: soup = first_page, no request
ReuseFirstPage ==
    /\ pc = "FetchingPage"
    /\ ~(page > 1)
    /\ soup' = first_page
    /\ pc' = "Aggregating"
    /\ UNCHANGED <<mode, raw_url, base_url, output_file, first_page, total_pages, page,
                   all_movies, files, console, requests, uncaught>>

\* lines 127-129 with page > 1: soup = fetch_page(page_url); lines 145-146 on a raise
FetchPage ==
    /\ pc = "FetchingPage"
    /\ page > 1
    /\ \E resp \in Responses(RunLaterPages) :
         LET r == fetch_page(resp)
         IN  /\ requests' = Append(requests,
                    [page |-> page, url |-> page_url(mode, base_url, page), exc |-> resp.exc,
                     status |-> resp.status, body |-> resp.body])
             /\ IF r.raised
                THEN /\ console' = Append(console, "An error occurred: Failed to fetch page")
                     /\ pc' = "Failed"
                     /\ UNCHANGED soup
                ELSE /\ soup' = r.soup
                     /\ pc' = "Aggregating"
                     /\ UNCHANGED console
    /\ UNCHANGED <<mode, raw_url, base_url, output_file, first_page, total_pages, page,
                   all_movies, files, uncaught>>

\* lines 132-134 and the loop's next test
Aggregate ==
    /\ pc = "Aggregating"
    /\ all_movies' = extend(all_movies, extract_movies(soup))
    /\ console' = Append(console, "Fetched page")
    /\ page' = page + 1
    /\ pc' = IF in_range(page + 1, total_pages) THEN "FetchingPage" ELSE "Exporting"
    /\ UNCHANGED <<mode, raw_url, base_url, output_file, first_page, soup, total_pages,
                   files, requests, uncaught>>

\* lines 137-144: the file is opened and written; or open() raises (a name
\* the file system refuses); or the file is opened, and so created empty,
\* and a write or the close raises with part of the rows on disk.  Lines
\* 145-146 print the error.
Export ==
    /\ pc = "Exporting"
    /\ \/ /\ files' = Append(files, written_file(output_file, all_movies))
          /\ console' = Append(console, "Exported")
          /\ pc' = "Done"
       \/ /\ console' = Append(console, "An error occurred: File name too long")
          /\ pc' = "Failed"
          /\ UNCHANGED files
       \/ \E header \in BOOLEAN :
          \E n \in 0..(IF header THEN Len(all_movies) ELSE 0) :
              /\ files' = Append(files, truncated_file(output_file, all_movies, header, n))
              /\ console' = Append(console, "An error occurred: File too large")
              /\ pc' = "Failed"
    /\ UNCHANGED <<mode, raw_url, base_url, output_file, first_page, soup, total_pages,
                   page, all_movies, requests, uncaught>>

Next ==
    \/ ReadInput
    \/ ResolveMode
    \/ FetchFirstPage
    \/ ResolvePagination
    \/ ReuseFirstPage
    \/ FetchPage
    \/ Aggregate
    \/ Export

Spec == Init /\ [][Next]_vars

----------------------------------------------------------------------------
(* The Mode Resolver alone, on every URL of at most MaxSegs segments and   *)
(* on the odd ones                                                         *)

InitResolve ==
    /\ mode \in {"list", "watchlist"}
    /\ raw_url \in URLsUpTo(MaxSegs) \cup OddURLs
    /\ pc = "ResolvingMode"
    /\ base_url = <<>>
    /\ output_file = <<>>
    /\ first_page = NoSoup
    /\ soup = NoSoup
    /\ total_pages = 0
    /\ page = 0
    /\ all_movies = <<>>
    /\ files = <<>>
    /\ console = <<>>
    /\ requests = <<>>
    /\ uncaught = ""

SpecResolve == InitResolve /\ [][ResolveMode]_vars

----------------------------------------------------------------------------
(* The Pagination Resolver alone, on every pagination control of at most   *)
(* MaxLabels links                                                         *)

\* a numeral of one digit more than int() reads
LongLabel == [i \in 1..(INT_MAX_STR_DIGITS + 1) |-> "1"]

\* "2", "3", "5", "0", "03", "Next" (shortened), "", a superscript two, an
\* Arabic-Indic three and the long numeral
PageLabels ==
    {<<"2">>, <<"3">>, <<"5">>, <<"0">>, <<"0", "3">>, <<"N">>, <<>>, <<"U+00B2">>,
     <<"U+0663">>, LongLabel}

PaginatedPages ==
    {[hasPagination |-> FALSE, labels |-> <<>>, posters |-> <<DuneCard>>]}
    \cup {[hasPagination |-> TRUE, labels |-> ls, posters |-> <<DuneCard>>] :
              ls \in SeqsUpTo(PageLabels, MaxLabels)}

InitPages ==
    /\ mode \in {"list", "watchlist"}
    /\ raw_url = MkURL(Site, IF mode = "list" THEN <<A, L, F>> ELSE <<A, W>>, TRUE, FALSE)
    /\ pc = "ResolvingPagination"
    /\ base_url = Resolve(mode, raw_url).base_url
    /\ output_file = Resolve(mode, raw_url).output_file
    /\ first_page \in PaginatedPages
    /\ soup = NoSoup
    /\ total_pages = 0
    /\ page = 0
    /\ all_movies = <<>>
    /\ files = <<>>
    /\ console = <<>>
    /\ requests = <<[page |-> 1, url |-> base_url, exc |-> FALSE, status |-> HTTP_OK,
                     body |-> first_page]>>
    /\ uncaught = ""

SpecPages == InitPages /\ [][ResolvePagination]_vars

----------------------------------------------------------------------------
(* The Entry Extractor alone, on every page of at most MaxPosters cards *)

\* last hyphen-delimited tokens: "2021", "202", "20210", "202d", "d", "" and
\* four superscript twos
Tokens ==
    {<<"2", "0", "2", "1">>, <<"2", "0", "2">>, <<"2", "0", "2", "1", "0">>,
     <<"2", "0", "2", "d">>, <<"d">>, <<>>, <<"U+00B2", "U+00B2", "U+00B2", "U+00B2">>}

Slugs ==
    Tokens \cup {<<"d", "-">> \o t : t \in Tokens} \cup {t \o <<"-", "d">> : t \in Tokens}

Links ==
    {<<"/", "f", "/">> \o g \o <<"/">> : g \in Slugs}
    \cup {<<>>, <<"/">>, <<"d", "-", "2", "0", "2", "1">>,
          <<"/", "2", "0", "2", "1", "/", "d", "/">>, MatrixLink}

\* "Poster for D", "A", " A ", "Poster for ", "Poster for  D ", "", "poster for D",
\* "Poster for D" and a tab, "A" between a no-break space and a carriage return
Alts ==
    {DuneAlt, <<"A">>, <<" ", "A", " ">>, PosterFor, PosterFor \o <<" ", "D", " ">>, <<>>,
     <<"p">> \o Tail(DuneAlt), DuneAlt \o <<"\t">>, <<"U+00A0", "A", "\r">>}

\* every combination of image, alt attribute and target link being there,
\* every link under a full image, every alt text over a full link
ExtractCards ==
    {Poster(i, a, IF a THEN DuneAlt ELSE <<>>, l, IF l THEN DuneLink ELSE <<>>) :
         i \in BOOLEAN, a \in BOOLEAN, l \in BOOLEAN}
    \cup {Poster(TRUE, TRUE, DuneAlt, TRUE, k) : k \in Links}
    \cup {Poster(TRUE, TRUE, t, TRUE, DuneLink) : t \in Alts}

ExtractPages ==
    {[hasPagination |-> FALSE, labels |-> <<>>, posters |-> ps] :
         ps \in SeqsUpTo(ExtractCards, MaxPosters)}

InitExtract ==
    /\ mode \in {"list", "watchlist"}
    /\ raw_url = MkURL(Site, IF mode = "list" THEN <<A, L, F>> ELSE <<A, W>>, TRUE, FALSE)
    /\ pc = "Aggregating"
    /\ base_url = Resolve(mode, raw_url).base_url
    /\ output_file = Resolve(mode, raw_url).output_file
    /\ first_page \in ExtractPages
    /\ soup = first_page
    /\ total_pages = 1
    /\ page = 1
    /\ all_movies = <<>>
    /\ files = <<>>
    /\ console = <<>>
    /\ requests = <<[page |-> 1, url |-> base_url, exc |-> FALSE, status |-> HTTP_OK,
                     body |-> first_page]>>
    /\ uncaught = ""

SpecExtract == InitExtract /\ [][Aggregate]_vars

----------------------------------------------------------------------------
(* Properties *)

RequestFailed(r) == r.exc \/ r.status # HTTP_OK

IsPrefix(s, t) == Len(s) <= Len(t) /\ SubSeq(t, 1, Len(s)) = s

\* the url a path-shaped input names, read the way the sentences of the
\* specification read it
Stripped == StripWS(raw_url)
Host == urlparse(Stripped).netloc
Segments == PathParts(Stripped)

FailsValidation ==
    \/ Host # Site
    \/ mode = "list" /\ (Len(Segments) < 3 \/ Segments[2] # ListWord)
    \/ mode = "watchlist" /\ (Len(Segments) < 2 \/ Segments[2] # WatchlistWord)

\* C1: once the fetch of some page has failed (an exception of the transport
\* or a status other than 200) the run has failed and no file is ever there,
\* whatever was extracted before; and the export is reached only with all
\* total_pages pages extracted.
C1_NoPartialOutput ==
    /\ (\E i \in 1..Len(requests) : RequestFailed(requests[i]))
           => (pc = "Failed" /\ files = <<>>)
    /\ (pc \in {"Exporting", "Done"} \/ files # <<>>)
           => (page - 1 = total_pages /\ Len(console) >= total_pages)

C1_Witness ==
    /\ pc = "Failed"
    /\ total_pages = 3
    /\ Len(requests) = 2
    /\ requests[2].page = 2
    /\ ~requests[2].exc
    /\ requests[2].status = 500
    /\ Len(all_movies) > 0
    /\ files = <<>>

\* C2: for an input URL that fails validation, once the Mode Resolver has run
\* the run has ended with one message printed and no exception leaving main(),
\* no request was ever issued and no file is there.
C2_RejectedBeforeNetwork ==
    (pc \notin {"Start", "ResolvingMode"} /\ FailsValidation)
        => /\ pc = "Failed"
           /\ requests = <<>>
           /\ files = <<>>
           /\ Len(console) = 1
           /\ uncaught = ""

\* the entries of the page served as page k
ServedEntries(k) == extract_movies(requests[k].body)

RECURSIVE SumLens(_)
SumLens(ss) == IF ss = <<>> THEN 0 ELSE Len(Head(ss)) + SumLens(Tail(ss))

C3_Exported ==
    pc = "Done" =>
        LET perPage == [k \in 1..total_pages |-> ServedEntries(k)]
        IN  /\ all_movies = Flatten(perPage)
            /\ Len(all_movies) = SumLens([k \in 1..total_pages |-> requests[k].body.posters])
            /\ Len(files) = 1
            /\ Len(files[1].rows) = Len(all_movies)
            /\ \A i \in 1..Len(all_movies) :
                   files[1].rows[i] =
                       <<all_movies[i].year, all_movies[i].title, all_movies[i].url>>

C3_AppendOnly == IsPrefix(all_movies, all_movies')

\* C3: after a successful run the exported rows are the entries of pages
\* 1..total_pages, concatenated in ascending page number and in document
\* order within a page, as many as the pages have cards; and every step leaves
\* the accumulator as it was or appends to it.
C3_Concatenation == [](C3_Exported) /\ [][C3_AppendOnly]_vars

C3_Witness ==
    /\ pc = "Done"
    /\ total_pages = 2
    /\ requests[1].body.posters = <<DuneCard, BareCard>>
    /\ requests[2].body.posters = <<BareCard, DuneCard>>
    /\ Len(files[1].rows) = 4

\* C4: in list mode the first-page address of a valid URL with owner o,
\* collection c and filter segments f1..fn is .../o/list/c/detail/ followed,
\* when n > 0, by the filter segments joined by "/" and a trailing "/".
C4_ListFirstPage ==
    (mode = "list" /\ pc = "FetchingFirstPage") =>
        LET o == Segments[1]
            c == Segments[3]
            f == SubSeq(Segments, 4, Len(Segments))
        IN  base_url = Origin \o <<"/">> \o o \o <<"/">> \o ListWord \o <<"/">> \o c
                           \o <<"/">> \o DetailWord \o <<"/">>
                           \o (IF Len(f) > 0 THEN Join(f, <<"/">>) \o <<"/">> ELSE <<>>)

\* a label made of decimal digits only
Numeral(label) ==
    label # <<>> /\ \A i \in 1..Len(label) : label[i] \in DecimalChars \cup OtherDecimalChars

\* the largest value among the numeral labels of a page, 1 when there is none
LargestNumeral(s) ==
    LET vals == {IntOf(s.labels[i]) : i \in {j \in 1..Len(s.labels) : Numeral(s.labels[j])}}
    IN  IF s.hasPagination /\ vals # {}
        THEN CHOOSE v \in vals : \A w \in vals : w <= v
        ELSE 1

\* C5: for every parsed first page the Pagination Resolver returns the largest
\* numeral label of the pagination control, and 1 when there is no control or
\* no numeral label; any other label is ignored.
C5_TotalPages ==
    pc # "ResolvingPagination" =>
        (pc # "Failed" /\ total_pages = LargestNumeral(first_page))

Allowed(from, to) ==
    \/ from = "Start" /\ to = "ResolvingMode"
    \/ from = "ResolvingMode" /\ to \in {"FetchingFirstPage", "Failed"}
    \/ from = "FetchingFirstPage" /\ to \in {"ResolvingPagination", "Failed"}
    \/ from = "ResolvingPagination" /\ to = "FetchingPage"
    \/ from = "ResolvingPagination" /\ to = "Exporting" /\ total_pages' = 0
    \/ from = "FetchingPage" /\ to \in {"Aggregating", "Failed"}
    \/ from = "Aggregating" /\ to = "FetchingPage" /\ page' <= total_pages
    \/ from = "Aggregating" /\ to = "Exporting" /\ page' = total_pages + 1
    \/ from = "Exporting" /\ to = "Done"

\* C6: the run only takes the steps Start -> ResolvingMode -> FetchingFirstPage
\* -> ResolvingPagination -> FetchingPage(k), k = 1..N -> Aggregating ->
\* Exporting -> Done; Failed is entered only from ResolvingMode or a fetching
\* step, and nothing leaves Failed.
C6_StateMachine == [][pc' # pc => Allowed(pc, pc')]_vars

\* s without its trailing "/"
RECURSIVE DropTrailingSlashes(_)
DropTrailingSlashes(s) ==
    IF s # <<>> /\ s[Len(s)] = "/" THEN DropTrailingSlashes(SubSeq(s, 1, Len(s) - 1)) ELSE s

\* the longest suffix of s holding neither "/" nor "-"
RECURSIVE FinalToken(_)
FinalToken(s) ==
    IF s = <<>> \/ s[Len(s)] \in {"/", "-"} THEN <<>>
    ELSE Append(FinalToken(SubSeq(s, 1, Len(s) - 1)), s[Len(s)])

\* purely numeral, as str.isdigit() reads it, and four characters long
FourDigits(t) ==
    /\ Len(t) = 4
    /\ \A i \in 1..4 : t[i] \in DecimalChars \cup OtherDecimalChars \cup NonDecimalDigitChars

\* C7: for every card with a non-empty target link the year is the last
\* hyphen-delimited token of the link's final path segment when that token is
\* purely numeral and 4 characters long, and empty otherwise; a card without
\* a link has an empty url and an empty year.  So a year is empty or four
\* digits, and a year that is not empty comes with a url.
C7_Year ==
    pc = "Exporting" =>
        \A i \in 1..Len(soup.posters) :
            LET card == soup.posters[i]
                e == all_movies[i]
                token == FinalToken(DropTrailingSlashes(card.link))
            IN  /\ (card.hasLink /\ card.link # <<>>)
                       => /\ e.year = IF FourDigits(token) THEN token ELSE <<>>
                          /\ e.url # <<>>
                /\ ~(card.hasLink /\ card.link # <<>>) => (e.url = <<>> /\ e.year = <<>>)
                /\ (e.year = <<>> \/ FourDigits(e.year))
                /\ (e.year # <<>> => e.url # <<>>)

C7_Witness ==
    /\ pc = "Exporting"
    /\ Len(all_movies) = 2
    /\ soup.posters[1].link = DuneLink
    /\ all_movies[1].year = <<"2", "0", "2", "1">>
    /\ soup.posters[2].link = MatrixLink
    /\ all_movies[2].year = <<>>
    /\ all_movies[2].url # <<>>

\* C8: extraction gives one entry per poster card, in the cards' order,
\* whichever of image, alt attribute and target link a card lacks: a missing
\* field is an empty field of the card's entry, and the step after the
\* extraction is the loop's next one, never a failure.
C8_OneEntryPerCard ==
    pc # "Aggregating" =>
        /\ pc = "Exporting"
        /\ Len(all_movies) = Len(soup.posters)
        /\ \A i \in 1..Len(soup.posters) :
               LET card == soup.posters[i]
                   e == all_movies[i]
               IN  /\ ~(card.hasImg /\ card.hasAlt) => e.title = <<>>
                   /\ (card.hasImg /\ card.hasAlt)
                          => \E k \in 0..Len(card.alt) :
                                 IsPrefix(e.title, SubSeq(card.alt, k + 1, Len(card.alt)))
                   /\ ~card.hasLink => (e.url = <<>> /\ e.year = <<>>)
                   /\ (card.hasLink /\ card.link # <<>>) => e.url = Origin \o card.link

C8_Witness ==
    /\ pc = "Exporting"
    /\ Len(soup.posters) = 2
    /\ soup.posters[1] = BareCard
    /\ soup.posters[2] = DuneCard
    /\ Len(all_movies) = 2
    /\ all_movies[1] = [year |-> <<>>, title |-> <<>>, url |-> <<>>]
    /\ all_movies[2].title = <<"D">>

\* C9: requests go out one at a time in ascending page order, page 1 once, no
\* page twice, page k only with pages 1..k-1 extracted, none after a failed
\* one, and a successful run has issued exactly total_pages of them.
C9_Sequential ==
    /\ \A i \in 1..Len(requests) : requests[i].page = i
    /\ \A i \in 1..(Len(requests) - 1) : ~RequestFailed(requests[i])
    /\ Len(requests) >= 2 => Len(requests) <= page
    /\ \A i \in 1..Len(requests) :
           requests[i].url = IF i = 1 THEN base_url ELSE page_url(mode, base_url, i)
    /\ pc = "Done" => Len(requests) = total_pages

\* what C9 says of the order alone
C9_Order ==
    /\ \A i \in 1..Len(requests) : requests[i].page = i
    /\ \A i \in 1..(Len(requests) - 1) : ~RequestFailed(requests[i])
    /\ Len(requests) >= 2 => Len(requests) <= page
    /\ pc = "Done" => Len(requests) = IF total_pages = 0 THEN 1 ELSE total_pages

\* C10: once the first page is fetched the loop runs over at least one page,
\* and a successful run exports all the entries of the first page.
C10_AtLeastOnePage ==
    /\ pc \in {"FetchingPage", "Aggregating", "Exporting", "Done"} => total_pages >= 1
    /\ pc = "Done" => IsPrefix(extract_movies(first_page), all_movies)

====
